---------------------------- MODULE Spec2Model ----------------------------
(***************************************************************************)
(* Model of tiktok-research-client: the date-range partitioner            *)
(* (utils.generate_date_ranges) and the paginated collector               *)
(* (TiktokClient.search / _get_user_videos / get_user / get_comments on   *)
(* top of fetch_data and _cursor_iterator).                               *)
(*                                                                         *)
(* Time.  A datetime is an integer number of half days since 1970-01-01   *)
(* 00:00: an even value is a midnight, an odd value is some instant       *)
(* strictly inside the day (datetime.now() has a time of day, strptime of *)
(* a "%Y-%m-%d" string has none).  A formatted date "YYYYMMDD" is the     *)
(* integer y*10000 + m*100 + d.                                           *)
(***************************************************************************)
EXTENDS Integers, Sequences, FiniteSets, TLC

(***************************************************************************)
(* Bounds of the model.                                                    *)
(***************************************************************************)
MaxTotalDays == 100  \* total_days of the partitioner runs is drawn from 0..MaxTotalDays
MaxNowOffset == 1    \* "now" is a base instant plus 0..MaxNowOffset half days
MaxSize      == 2    \* max_size of a collection is drawn from 1..MaxSize
MaxCount     == 2    \* largest page the server sends (100 in the source, scaled)
MaxMore      == 2    \* the server answers has_more = true at most MaxMore times per run
MaxTokenFail == 3    \* the token exchange fails at most MaxTokenFail times per run
MaxItems     == 2    \* the lists written to a JSON file hold at most MaxItems records
MaxComments  == 3    \* comment cap of get_comments (1000 in the source, scaled)
MaxUserVideos == 3   \* a user of the tiktok_dynamics runs has at most MaxUserVideos videos
UserMaxSize  == 2    \* default max_size of _get_user_videos (1000 in the source, scaled)

(***************************************************************************)
(* Calendar arithmetic of datetime (proleptic Gregorian calendar).        *)
(***************************************************************************)
\* days since 1970-01-01 of the civil date y-m-d
DaysFromCivil(y, m, d) ==
    LET yy  == IF m <= 2 THEN y - 1 ELSE y
        era == yy \div 400
        yoe == yy - era * 400
        mp  == IF m > 2 THEN m - 3 ELSE m + 9
        doy == (153 * mp + 2) \div 5 + d - 1
        doe == yoe * 365 + yoe \div 4 - yoe \div 100 + doy
    IN  era * 146097 + doe - 719468

\* civil date <<y, m, d>> of a number of days since 1970-01-01
CivilFromDays(z0) ==
    LET z   == z0 + 719468
        era == z \div 146097
        doe == z - era * 146097
        yoe == (doe - doe \div 1460 + doe \div 36524 - doe \div 146096) \div 365
        doy == doe - (365 * yoe + yoe \div 4 - yoe \div 100)
        mp  == (5 * doy + 2) \div 153
        d   == doy - (153 * mp + 2) \div 5 + 1
        m   == IF mp < 10 THEN mp + 3 ELSE mp - 9
        y   == yoe + era * 400 + (IF m <= 2 THEN 1 ELSE 0)
    IN  <<y, m, d>>

\* datetime.strptime(s, "%Y-%m-%d"): the midnight that starts the day s = <<y, m, d>>
Strptime(s) == 2 * DaysFromCivil(s[1], s[2], s[3])

\* dt.strftime("%Y-%m-%d").replace("-", ""): the time of day is dropped
Strftime(dt) ==
    LET c == CivilFromDays(dt \div 2)
    IN  c[1] * 10000 + c[2] * 100 + c[3]

\* dt + timedelta(days=n)
AddDays(dt, n) == dt + 2 * n

\* the day number (days since 1970-01-01) a formatted date "YYYYMMDD" denotes
DayOfFormatted(f) == DaysFromCivil(f \div 10000, (f \div 100) % 100, f % 100)

(***************************************************************************)
(* utils.generate_date_ranges                                              *)
(***************************************************************************)
ClampEndNoClamp(end_date, now_dt) == end_date

\* if end_date > datetime.now(): end_date = datetime.now()
ClampEnd(end_date, now_dt) == IF end_date > now_dt THEN now_dt ELSE end_date

NextDateLonger(start_date, end_date) ==
    IF AddDays(start_date, 31) > end_date THEN end_date ELSE AddDays(start_date, 31)

\* next_date = start_date + 30 days, truncated to end_date
NextDate(start_date, end_date) ==
    IF AddDays(start_date, 30) > end_date THEN end_date ELSE AddDays(start_date, 30)

NextStartSameDay(next_date) == next_date

\* start_date = next_date + timedelta(days=1)
NextStart(next_date) == AddDays(next_date, 1)

LoopGuardInclusive(start_date, end_date) == start_date <= end_date

\* while start_date < end_date
LoopGuard(start_date, end_date) == start_date < end_date

RECURSIVE DateRangeLoop(_, _, _)
\* the while loop: date_ranges is the list built so far
DateRangeLoop(start_date, end_date, ranges) ==
    IF LoopGuard(start_date, end_date)
    THEN LET next_date == NextDate(start_date, end_date)
         IN  DateRangeLoop(NextStart(next_date), end_date,
                 Append(ranges, <<Strftime(start_date), Strftime(next_date)>>))
    ELSE ranges

generate_date_ranges(start_str, days, now_dt) ==
    LET start_date == Strptime(start_str)
        end_date   == ClampEnd(AddDays(start_date, days), now_dt)
    IN  DateRangeLoop(start_date, end_date, <<>>)

(***************************************************************************)
(* State.                                                                  *)
(***************************************************************************)
VARIABLES
    op,             \* the operation that is running
    pc,             \* position in the code
    ret,            \* the caller fetch_data returns to
    start_date_str, \* input: start date "%Y-%m-%d" as <<y, m, d>>
    total_days,     \* input of generate_date_ranges
    now,            \* datetime.now() of this run
    max_size,       \* input: max_size
    date_ranges,    \* the windows returned by generate_date_ranges
    widx,           \* index of the for loop over date_ranges
    call,           \* search: 1 = the "output =" call of _cursor_iterator, 2 = the call inside extend
    query,          \* the request payload (a dict: function from keys to values)
    data,           \* _cursor_iterator: data
    has_more_data,  \* _cursor_iterator / get_comments: has_more_data
    videos,         \* search / _get_user_videos: videos
    comments,       \* get_comments: comments
    user_data,      \* get_user: data
    response,       \* what the last fetch_data call returned (kept after the call)
    attempt,        \* tenacity: attempt number of the running fetch_data call
    nattempt,       \* history: attempts of fetch_data started
    headers,        \* fetch_data: headers, as the number of the token exchange that returned it
    result,         \* the value the operation returned
    error,          \* the exception that left the operation, "none" if none
    nreq,           \* history: data requests issued
    wreq,           \* history: data requests issued for the current window
    ntoken,         \* history: token-exchange requests issued
    nfail,          \* history: token-exchange requests that failed
    nmore,          \* history: has_more = true answers
    served,         \* history: items the server has sent
    sent,           \* history: the last data request
    fetched,        \* history: the items of the pages fetch_data returned, in order
    none_seen,      \* history: fetch_data has returned None
    before_none,    \* history: fetched at the first None
    cli,            \* the command-line program that runs ("none": the client is called directly)
    query_option,   \* main: --query_option
    container,      \* save_json: the value written (a JSON value)
    fs,             \* the files written, in order: [path, text]
    stdout,         \* the lines printed, in order
    loaded,         \* what read_json returned
    idx,            \* search_keyword: index of the comment loop over data
    collect_comments, \* search_keyword: collect_comments
    comment_calls,  \* history: the video ids _get_comments was called with, in order
    status,         \* the HTTP status of the last answer, 0 if the request got no answer
    cquery          \* _get_comments: query

\* the state of the command-line programs, of the JSON files and of tiktok_dynamics
extra == <<cli, query_option, container, fs, stdout, loaded, idx, collect_comments,
           comment_calls, status, cquery>>

vars == <<op, pc, ret, start_date_str, total_days, now, max_size, date_ranges,
          widx, call, query, data, has_more_data, videos, comments, user_data,
          response, attempt, nattempt, result, error, nreq, wreq, ntoken, headers, nfail, nmore,
          served, sent, fetched, none_seen, before_none, cli, query_option, container, fs,
          stdout, loaded, idx, collect_comments, comment_calls, status, cquery>>

(***************************************************************************)
(* Values.                                                                 *)
(***************************************************************************)
\* Python's None
None == [none |-> TRUE]

\* dict operations: d[k] = v, del d[k]
SetKey(d, k, v) == (k :> v) @@ d
DelKey(d, k) == [x \in (DOMAIN d) \ {k} |-> d[x]]

ExtendFront(list, items) == items \o list

\* list.extend(items)
Extend(list, items) == list \o items

\* the item the server sends as its id-th item; create_time is a Unix timestamp
Item(id) == [id |-> id, create_time |-> 1672531200 + id * 40000]

\* datetime.utcfromtimestamp(ts).strftime("%Y-%m-%d"): the date string of the
\* day the timestamp lies in, written as the integer y*10000 + m*100 + d
DecodeTimestamp(ts) ==
    LET c == CivilFromDays((ts \div 43200) \div 2)
    IN  c[1] * 10000 + c[2] * 100 + c[3]

\* the "Decoding timestamps..." loop over a list of items
DecodeTimestamps(items) ==
    [i \in 1..Len(items) |->
        [items[i] EXCEPT !.create_time = DecodeTimestamp(items[i].create_time)]]

\* the ids of a list of items
Ids(items) == [i \in 1..Len(items) |-> items[i].id]

\* a page of n items answered to the r-th data request
PageResponse(n, more, r, first_id) ==
    [items     |-> [i \in 1..n |-> Item(first_id + i)],
     has_more  |-> more,
     cursor    |-> r,
     search_id |-> r]

\* body of the user/info endpoint
UserBody == ("display_name" :> "name")

\* the query templates
SearchQuery     == ("query" :> "keyword or hashtag_name IN keywords") @@ ("max_count" :> MaxCount)
UserVideosQuery == ("query" :> "username EQ username") @@ ("max_count" :> MaxCount)
UserInfoQuery   == ("username" :> "username")
CommentsQuery   == ("video_id" :> "video_id") @@ ("max_count" :> MaxCount)
CustomQuery     == ("query" :> "custom")

\* stop=stop_after_attempt(3)
StopAfterAttempt == 3

(***************************************************************************)
(* Inputs.                                                                 *)
(***************************************************************************)
\* start dates and instants of the partitioner runs
PartitionStarts == {<<2022, 1, 1>>, <<2022, 12, 15>>, <<2023, 1, 1>>, <<2023, 2, 10>>,
                    <<2023, 2, 11>>, <<2024, 1, 20>>, <<2024, 3, 15>>}
NowBases == {Strptime(<<2023, 2, 10>>), Strptime(<<2024, 3, 15>>)}
PartitionNows == {b + o : b \in NowBases, o \in 0..MaxNowOffset}

\* start dates and instants of the collection runs
CollectorStarts == {<<2023, 1, 1>>, <<2023, 2, 10>>}
CollectorNows == {Strptime(<<2023, 2, 10>>) + o : o \in 0..MaxNowOffset}

\* the defaults of _get_user_videos
DefaultStartDate == <<2023, 1, 1>>

Ops == {"query", "search", "user_videos", "get_user", "get_comments"}

\* total_days each operation passes to generate_date_ranges
TotalDaysOf(o) == IF o = "search" THEN 100
                  ELSE IF o \in {"user_videos", "get_user"} THEN 1000 ELSE 0

InitCommon ==
    /\ pc = "start"
    /\ ret = "none"
    /\ date_ranges = <<>>
    /\ widx = 0
    /\ call = 0
    /\ query = <<>>
    /\ data = <<>>
    /\ has_more_data = FALSE
    /\ videos = <<>>
    /\ comments = <<>>
    /\ user_data = None
    /\ response = None
    /\ attempt = 0
    /\ nattempt = 0
    /\ headers = 0
    /\ result = None
    /\ error = "none"
    /\ nreq = 0
    /\ wreq = 0
    /\ ntoken = 0
    /\ nfail = 0
    /\ nmore = 0
    /\ served = 0
    /\ sent = None
    /\ fetched = <<>>
    /\ none_seen = FALSE
    /\ before_none = <<>>
    /\ fs = <<>>
    /\ stdout = <<>>
    /\ loaded = None
    /\ idx = 0
    /\ comment_calls = <<>>
    /\ status = 0
    /\ cquery = <<>>

\* no command-line program: the operation is called directly
InitDirect ==
    /\ cli = "none"
    /\ query_option = "none"
    /\ container = None
    /\ collect_comments = FALSE

\* a client after construction, about to run one operation
Init ==
    /\ op \in Ops
    /\ now \in CollectorNows
    /\ start_date_str \in (IF op \in {"search", "user_videos"}
                           THEN CollectorStarts ELSE {DefaultStartDate})
    /\ max_size \in (IF op \in {"search", "user_videos"} THEN 1..MaxSize ELSE {UserMaxSize})
    /\ total_days = TotalDaysOf(op)
    /\ InitCommon
    /\ InitDirect

\* a call of generate_date_ranges
InitDates ==
    /\ op = "dates"
    /\ now \in PartitionNows
    /\ start_date_str \in PartitionStarts
    /\ total_days \in 0..MaxTotalDays
    /\ max_size = 0
    /\ InitCommon
    /\ InitDirect

(***************************************************************************)
(* The partitioner run: generate_date_ranges(start_date_str, total_days).  *)
(***************************************************************************)
CallGenerateDateRanges ==
    /\ op = "dates"
    /\ pc = "start"
    /\ date_ranges' = generate_date_ranges(start_date_str, total_days, now)
    /\ result' = date_ranges'
    /\ pc' = "done"
    /\ UNCHANGED <<extra, op, ret, start_date_str, total_days, now, max_size, widx, call,
                   query, data, has_more_data, videos, comments, user_data, response,
                   attempt, nattempt, error, nreq, wreq, ntoken, headers, nfail, nmore, served, sent,
                   fetched, none_seen, before_none>>

NextDates == CallGenerateDateRanges

SpecDates == InitDates /\ [][NextDates]_vars

CallGenerateDateRangesLater ==
    /\ op = "dates"
    /\ pc = "done"
    /\ data' = generate_date_ranges(start_date_str, total_days, now - 2)
    /\ pc' = "done2"
    /\ UNCHANGED <<extra, op, ret, start_date_str, total_days, now, max_size, date_ranges, widx,
                   call, query, has_more_data, videos, comments, user_data, response, result,
                   attempt, nattempt, error, nreq, wreq, ntoken, headers, nfail, nmore, served,
                   sent, fetched, none_seen, before_none>>

\* a second call of generate_date_ranges with the same arguments at the same instant;
\* its return value is kept in data
CallGenerateDateRangesAgain ==
    /\ op = "dates"
    /\ pc = "done"
    /\ data' = generate_date_ranges(start_date_str, total_days, now)
    /\ pc' = "done2"
    /\ UNCHANGED <<extra, op, ret, start_date_str, total_days, now, max_size, date_ranges, widx,
                   call, query, has_more_data, videos, comments, user_data, response, result,
                   attempt, nattempt, error, nreq, wreq, ntoken, headers, nfail, nmore, served,
                   sent, fetched, none_seen, before_none>>

NextTwice == CallGenerateDateRanges \/ CallGenerateDateRangesAgain

SpecTwice == InitDates /\ [][NextTwice]_vars

(***************************************************************************)
(* TiktokClient.fetch_data, wrapped in tenacity's retry: an attempt that   *)
(* raises is repeated until StopAfterAttempt attempts were made, then      *)
(* RetryError leaves the call; an attempt that returns ends the call.      *)
(***************************************************************************)
inputs  == <<op, start_date_str, total_days, now, max_size>>
locals  == <<date_ranges, widx, call, query, data, has_more_data, videos, comments, user_data>>
history == <<nreq, wreq, ntoken, headers, nfail, nmore, served, sent, fetched, none_seen, before_none>>

\* the caller enters fetch_data and continues at r when it returns
CallFetchData(r) ==
    /\ pc' = "get_headers"
    /\ ret' = r
    /\ attempt' = 1
    /\ nattempt' = nattempt + 1

GetHeadersCached ==
    /\ pc = "get_headers"
    /\ IF headers # 0
       THEN UNCHANGED <<ntoken, headers>>
       ELSE ntoken' = ntoken + 1 /\ headers' = ntoken + 1
    /\ pc' = "post"
    /\ UNCHANGED <<inputs, extra, locals, ret, response, attempt, nattempt, result, error,
                   nreq, wreq, nfail, nmore, served, sent, fetched, none_seen, before_none>>

\* headers = self._get_headers(): get_access_token posts the token exchange on every
\* call and the answer (2xx here) becomes the Authorization header of this attempt
GetHeaders ==
    /\ pc = "get_headers"
    /\ ntoken' = ntoken + 1
    /\ headers' = ntoken + 1
    /\ pc' = "post"
    /\ UNCHANGED <<inputs, extra, locals, ret, response, attempt, nattempt, result, error,
                   nreq, wreq, nfail, nmore, served, sent, fetched, none_seen, before_none>>

\* get_access_token raises (transport error, or raise_for_status on a non-2xx
\* answer): nothing in fetch_data catches it, so tenacity sees a failed attempt
GetHeadersFail ==
    /\ pc = "get_headers"
    /\ nfail < MaxTokenFail
    /\ ntoken' = ntoken + 1
    /\ nfail' = nfail + 1
    /\ IF attempt >= StopAfterAttempt
       THEN /\ pc' = "raised"
            /\ error' = "RetryError"
            /\ UNCHANGED <<attempt, nattempt>>
       ELSE /\ attempt' = attempt + 1
            /\ nattempt' = nattempt + 1
            /\ UNCHANGED <<pc, error>>
    /\ UNCHANGED <<inputs, extra, locals, ret, response, result, headers,
                   nreq, wreq, nmore, served, sent, fetched, none_seen, before_none>>

\* the data request of this attempt, as seen by the server
Request ==
    [payload |-> query, win |-> widx, first |-> (wreq = 0), n |-> nreq + 1,
     token |-> headers, attempt |-> nattempt]

\* requests.post answers 2xx: fetch_data returns response.json()
PostOk ==
    /\ pc = "post"
    /\ nreq' = nreq + 1
    /\ wreq' = wreq + 1
    /\ sent' = Request
    /\ \/ /\ ret = "user_ret"
          /\ response' = UserBody
          /\ UNCHANGED <<nmore, served, fetched>>
       \/ /\ ret # "user_ret"
          /\ \E n \in 0..MaxCount, more \in BOOLEAN :
                /\ more => nmore < MaxMore
                /\ response' = PageResponse(n, more, nreq + 1, served)
                /\ nmore' = IF more THEN nmore + 1 ELSE nmore
                /\ served' = served + n
                /\ fetched' = fetched \o response'.items
    /\ pc' = ret
    /\ UNCHANGED <<inputs, extra, locals, ret, attempt, nattempt, result, error,
                   ntoken, headers, nfail, none_seen, before_none>>

\* requests.post or raise_for_status raises RequestException: it is caught
\* and fetch_data returns None (the attempt returned, so tenacity does not retry)
PostFail ==
    /\ pc = "post"
    /\ nreq' = nreq + 1
    /\ wreq' = wreq + 1
    /\ sent' = Request
    /\ response' = None
    /\ none_seen' = TRUE
    /\ before_none' = IF none_seen THEN before_none ELSE fetched
    /\ pc' = ret
    /\ UNCHANGED <<inputs, extra, locals, ret, attempt, nattempt, result, error,
                   ntoken, headers, nfail, nmore, served, fetched>>

(***************************************************************************)
(* TiktokClient.query: a bare fetch_data call.                             *)
(***************************************************************************)
QueryStart ==
    /\ op = "query"
    /\ pc = "start"
    /\ query' = CustomQuery
    /\ CallFetchData("query_ret")
    /\ UNCHANGED <<inputs, extra, date_ranges, widx, call, data, has_more_data, videos,
                   comments, user_data, response, result, error, history>>

QueryReturn ==
    /\ pc = "query_ret"
    /\ result' = response
    /\ pc' = "done"
    /\ UNCHANGED <<inputs, extra, locals, ret, response, attempt, nattempt, error, history>>

(***************************************************************************)
(* TiktokClient._cursor_iterator                                           *)
(***************************************************************************)
\* the caller enters _cursor_iterator(url, query, max_size)
CallCursorIterator ==
    /\ has_more_data' = TRUE
    /\ data' = <<>>
    /\ pc' = "iter"

\* while has_more_data and len(data) < max_size
CursorLoopCond(more, items, size) == more /\ Len(items) < size

CursorIteratorLoop ==
    /\ pc = "iter"
    /\ IF CursorLoopCond(has_more_data, data, max_size)
       THEN CallFetchData("iter_ret")
       ELSE /\ pc' = "iter_return"
            /\ UNCHANGED <<ret, attempt, nattempt>>
    /\ UNCHANGED <<inputs, extra, locals, response, result, error, history>>

\* a loop body that also lowers max_count to what is still missing
CursorIteratorBodyShrinks ==
    /\ pc = "iter_ret"
    /\ IF response = None
       THEN /\ pc' = "iter_return"
            /\ UNCHANGED <<data, has_more_data, query>>
       ELSE /\ data' = Extend(data, response.items)
            /\ has_more_data' = response.has_more
            /\ IF ~response.has_more
               THEN /\ pc' = "iter_return"
                    /\ UNCHANGED query
               ELSE /\ query' = SetKey(SetKey(SetKey(query, "cursor", response.cursor),
                                              "search_id", response.search_id),
                                       "max_count", 0)
                    /\ pc' = "iter"
    /\ UNCHANGED <<inputs, extra, date_ranges, widx, call, videos, comments, user_data,
                   ret, response, attempt, nattempt, result, error, history>>

\* the loop body after fetch_data returned
CursorIteratorBody ==
    /\ pc = "iter_ret"
    /\ IF response = None
       THEN /\ pc' = "iter_return"
            /\ UNCHANGED <<data, has_more_data, query>>
       ELSE /\ data' = Extend(data, response.items)
            /\ has_more_data' = response.has_more
            /\ IF ~response.has_more
               THEN /\ pc' = "iter_return"
                    /\ UNCHANGED query
               ELSE /\ query' = SetKey(SetKey(query, "cursor", response.cursor),
                                       "search_id", response.search_id)
                    /\ pc' = "iter"
    /\ UNCHANGED <<inputs, extra, date_ranges, widx, call, videos, comments, user_data,
                   ret, response, attempt, nattempt, result, error, history>>

(***************************************************************************)
(* TiktokClient.search                                                     *)
(***************************************************************************)
SearchStart ==
    /\ op = "search"
    /\ pc = "start"
    /\ date_ranges' = generate_date_ranges(start_date_str, total_days, now)
    /\ query' = SearchQuery
    /\ videos' = <<>>
    /\ widx' = 1
    /\ pc' = "for"
    /\ UNCHANGED <<inputs, extra, call, data, has_more_data, comments, user_data,
                   ret, response, attempt, nattempt, result, error, history>>

\* if len(videos) >= max_size: break
CapReached(items, size) == Len(items) >= size

\* a window step that keeps the end date of the first window
SearchForStaleEnd ==
    /\ op = "search"
    /\ pc = "for"
    /\ IF widx > Len(date_ranges)
       THEN /\ videos' = DecodeTimestamps(videos)
            /\ result' = videos'
            /\ pc' = "done"
            /\ UNCHANGED <<query, call, data, has_more_data, wreq>>
       ELSE /\ query' = SetKey(SetKey(query, "start_date", date_ranges[widx][1]),
                               "end_date", date_ranges[1][2])
            /\ IF CapReached(videos, max_size)
               THEN /\ videos' = DecodeTimestamps(videos)
                    /\ result' = videos'
                    /\ pc' = "done"
                    /\ UNCHANGED <<call, data, has_more_data, wreq>>
               ELSE /\ call' = 1
                    /\ wreq' = 0
                    /\ CallCursorIterator
                    /\ UNCHANGED <<videos, result>>
    /\ UNCHANGED <<inputs, extra, date_ranges, widx, comments, user_data, ret, response,
                   attempt, nattempt, error, nreq, ntoken, headers, nfail, nmore, served, sent, fetched,
                   none_seen, before_none>>

\* one step of "for date_range in date_ranges", up to the first _cursor_iterator call;
\* after the loop: the timestamps are decoded in place and videos is returned
SearchFor ==
    /\ op = "search"
    /\ pc = "for"
    /\ IF widx > Len(date_ranges)
       THEN /\ videos' = DecodeTimestamps(videos)
            /\ result' = videos'
            /\ pc' = "done"
            /\ UNCHANGED <<query, call, data, has_more_data, wreq>>
       ELSE /\ query' = SetKey(SetKey(query, "start_date", date_ranges[widx][1]),
                               "end_date", date_ranges[widx][2])
            /\ IF CapReached(videos, max_size)
               THEN /\ videos' = DecodeTimestamps(videos)
                    /\ result' = videos'
                    /\ pc' = "done"
                    /\ UNCHANGED <<call, data, has_more_data, wreq>>
               ELSE /\ call' = 1
                    /\ wreq' = 0
                    /\ CallCursorIterator
                    /\ UNCHANGED <<videos, result>>
    /\ UNCHANGED <<inputs, extra, date_ranges, widx, comments, user_data, ret, response,
                   attempt, nattempt, error, nreq, ntoken, headers, nfail, nmore, served, sent, fetched,
                   none_seen, before_none>>

\* output = self._cursor_iterator(...) returned.  _cursor_iterator returns the
\* list data on each of its paths, so "if output is not None" always holds, and
\* the argument of videos.extend calls _cursor_iterator once more
SearchOutput ==
    /\ op = "search"
    /\ pc = "iter_return"
    /\ call = 1
    /\ call' = 2
    /\ CallCursorIterator
    /\ UNCHANGED <<inputs, extra, date_ranges, widx, query, videos, comments, user_data,
                   ret, response, attempt, nattempt, result, error, history>>

\* videos.extend(<what the second call returned>), then the next date_range
SearchExtend ==
    /\ op = "search"
    /\ pc = "iter_return"
    /\ call = 2
    /\ videos' = Extend(videos, data)
    /\ widx' = widx + 1
    /\ pc' = "for"
    /\ UNCHANGED <<inputs, extra, date_ranges, call, query, data, has_more_data, comments,
                   user_data, ret, response, attempt, nattempt, result, error, history>>

(***************************************************************************)
(* TiktokClient._get_user_videos                                           *)
(***************************************************************************)
\* the body of _get_user_videos up to the for loop
EnterUserVideos ==
    /\ date_ranges' = generate_date_ranges(start_date_str, total_days, now)
    /\ query' = UserVideosQuery
    /\ videos' = <<>>
    /\ widx' = 1
    /\ pc' = "for"

UserVideosStart ==
    /\ op = "user_videos"
    /\ pc = "start"
    /\ EnterUserVideos
    /\ UNCHANGED <<inputs, extra, call, data, has_more_data, comments, user_data,
                   ret, response, attempt, nattempt, result, error, history>>

\* one step of "for start_date, end_date in date_ranges", up to the
\* _cursor_iterator call; after the loop: decode the timestamps and return
UserVideosFor ==
    /\ op \in {"user_videos", "get_user"}
    /\ pc = "for"
    /\ IF widx > Len(date_ranges)
       THEN /\ videos' = DecodeTimestamps(videos)
            /\ IF op = "user_videos"
               THEN result' = videos' /\ pc' = "done"
               ELSE pc' = "user_assign" /\ UNCHANGED result
            /\ UNCHANGED <<query, data, has_more_data, wreq>>
       ELSE /\ query' = SetKey(SetKey(query, "start_date", date_ranges[widx][1]),
                               "end_date", date_ranges[widx][2])
            /\ wreq' = 0
            /\ CallCursorIterator
            /\ UNCHANGED <<videos, result>>
    /\ UNCHANGED <<inputs, extra, date_ranges, widx, call, comments, user_data, ret, response,
                   attempt, nattempt, error, nreq, ntoken, headers, nfail, nmore, served, sent, fetched,
                   none_seen, before_none>>

\* videos.extend(self._cursor_iterator(url, query, max_size)), then the next window
UserVideosExtend ==
    /\ op \in {"user_videos", "get_user"}
    /\ pc = "iter_return"
    /\ videos' = Extend(videos, data)
    /\ widx' = widx + 1
    /\ pc' = "for"
    /\ UNCHANGED <<inputs, extra, date_ranges, call, query, data, has_more_data, comments,
                   user_data, ret, response, attempt, nattempt, result, error, history>>

(***************************************************************************)
(* TiktokClient.get_user                                                   *)
(***************************************************************************)
GetUserStart ==
    /\ op = "get_user"
    /\ pc = "start"
    /\ query' = UserInfoQuery
    /\ CallFetchData("user_ret")
    /\ UNCHANGED <<inputs, extra, date_ranges, widx, call, data, has_more_data, videos,
                   comments, user_data, response, result, error, history>>

\* data = self.fetch_data(url, query), then the call self._get_user_videos(username)
GetUserAfterFetch ==
    /\ pc = "user_ret"
    /\ user_data' = response
    /\ EnterUserVideos
    /\ UNCHANGED <<inputs, extra, call, data, has_more_data, comments,
                   ret, response, attempt, nattempt, result, error, history>>

\* data["videos"] = <the videos>: item assignment on None raises TypeError
GetUserAssign ==
    /\ pc = "user_assign"
    /\ IF user_data = None
       THEN /\ error' = "TypeError"
            /\ pc' = "raised"
            /\ UNCHANGED <<user_data, result>>
       ELSE /\ user_data' = SetKey(user_data, "videos", videos)
            /\ result' = user_data'
            /\ pc' = "done"
            /\ UNCHANGED error
    /\ UNCHANGED <<inputs, extra, date_ranges, widx, call, query, data, has_more_data,
                   videos, comments, ret, response, attempt, nattempt, history>>

(***************************************************************************)
(* TiktokClient.get_comments                                               *)
(***************************************************************************)
GetCommentsStart ==
    /\ op = "get_comments"
    /\ pc = "start"
    /\ query' = CommentsQuery
    /\ comments' = <<>>
    /\ has_more_data' = TRUE
    /\ pc' = "comments_loop"
    /\ UNCHANGED <<inputs, extra, date_ranges, widx, call, data, videos, user_data,
                   ret, response, attempt, nattempt, result, error, history>>

\* while has_more_data and len(comments) < 1000; after the loop: decode and return
GetCommentsLoop ==
    /\ pc = "comments_loop"
    /\ IF has_more_data /\ Len(comments) < MaxComments
       THEN /\ CallFetchData("comments_ret")
            /\ UNCHANGED <<comments, result>>
       ELSE /\ comments' = DecodeTimestamps(comments)
            /\ result' = comments'
            /\ pc' = "done"
            /\ UNCHANGED <<ret, attempt, nattempt>>
    /\ UNCHANGED <<inputs, extra, date_ranges, widx, call, query, data, has_more_data,
                   videos, user_data, response, error, history>>

\* the loop body after fetch_data returned: subscripting None raises TypeError
GetCommentsBody ==
    /\ pc = "comments_ret"
    /\ IF response = None
       THEN /\ error' = "TypeError"
            /\ pc' = "raised"
            /\ UNCHANGED <<comments, has_more_data, query, result>>
       ELSE /\ has_more_data' = response.has_more
            /\ UNCHANGED error
            /\ IF ~response.has_more
               THEN /\ query' = DelKey(SetKey(query, "cursor", response.cursor), "cursor")
                    /\ comments' = DecodeTimestamps(Extend(comments, response.items))
                    /\ result' = comments'
                    /\ pc' = "done"
               ELSE /\ query' = SetKey(query, "cursor", response.cursor)
                    /\ comments' = Extend(comments, response.items)
                    /\ pc' = "comments_loop"
                    /\ UNCHANGED result
    /\ UNCHANGED <<inputs, extra, date_ranges, widx, call, data, videos, user_data,
                   ret, response, attempt, nattempt, history>>

(***************************************************************************)
(* The collection runs.                                                    *)
(***************************************************************************)
Next ==
    \/ GetHeaders
    \/ GetHeadersFail
    \/ PostOk
    \/ PostFail
    \/ QueryStart
    \/ QueryReturn
    \/ CursorIteratorLoop
    \/ CursorIteratorBody
    \/ SearchStart
    \/ SearchFor
    \/ SearchOutput
    \/ SearchExtend
    \/ UserVideosStart
    \/ UserVideosFor
    \/ UserVideosExtend
    \/ GetUserStart
    \/ GetUserAfterFetch
    \/ GetUserAssign
    \/ GetCommentsStart
    \/ GetCommentsLoop
    \/ GetCommentsBody

Spec == Init /\ [][Next]_vars

\* the client is single-threaded and every call blocks: a run that can take a step takes it
SpecFair == Spec /\ WF_vars(Next)

(***************************************************************************)
(* utils.save_json / utils.read_json.  A JSON value is tagged with its     *)
(* Python type: an int, a str (a sequence of characters), a list, or a     *)
(* dict (its key/value pairs in insertion order).  A text is a sequence of *)
(* characters.                                                             *)
(***************************************************************************)
JInt(n)   == [t |-> "int", i |-> n, s |-> <<>>, xs |-> <<>>]
JStr(cs)  == [t |-> "str", i |-> 0, s |-> cs, xs |-> <<>>]
JList(xs) == [t |-> "list", i |-> 0, s |-> <<>>, xs |-> xs]
JDict(ps) == [t |-> "dict", i |-> 0, s |-> <<>>, xs |-> ps]
JNull     == [t |-> "null", i |-> 0, s |-> <<>>, xs |-> <<>>]
\* one key/value pair of a dict
JPair(k, x) == [t |-> "pair", i |-> 0, s |-> k, xs |-> <<x>>]

DigitChar(d) == <<"0", "1", "2", "3", "4", "5", "6", "7", "8", "9">>[d + 1]
IsDigit(c) == \E d \in 0..9 : DigitChar(d) = c
DigitVal(c) == CHOOSE d \in 0..9 : DigitChar(d) = c

RECURSIVE Digits(_)
\* the decimal digits of n >= 0
Digits(n) == IF n < 10 THEN <<DigitChar(n)>> ELSE Digits(n \div 10) \o <<DigitChar(n % 10)>>

DumpIntNoSign(n) == IF n < 0 THEN Digits(-n) ELSE Digits(n)

\* json.dump of an int
DumpInt(n) == IF n < 0 THEN <<"-">> \o Digits(-n) ELSE Digits(n)

\* json.dump of one character of a str (ensure_ascii=False)
EscapeChar(c) ==
    IF c = "\"" THEN <<"\\", "\"">>
    ELSE IF c = "\\" THEN <<"\\", "\\">>
    ELSE IF c = "\n" THEN <<"\\", "n">>
    ELSE <<c>>

RECURSIVE Escape(_)
Escape(cs) == IF cs = <<>> THEN <<>> ELSE EscapeChar(Head(cs)) \o Escape(Tail(cs))

\* json.dump of a str
DumpStr(cs) == <<"\"">> \o Escape(cs) \o <<"\"">>

RECURSIVE Indent(_)
\* a line break followed by indent=4 spaces per nesting level
Indent(level) == IF level = 0 THEN <<"\n">> ELSE Indent(level - 1) \o <<" ", " ", " ", " ">>

RECURSIVE Dump(_, _), DumpItems(_, _), DumpPairs(_, _)
\* json.dump(value, outfile, ensure_ascii=False, indent=4) at a nesting level
Dump(x, level) ==
    CASE x.t = "null" -> <<"n", "u", "l", "l">>
      [] x.t = "int"  -> DumpInt(x.i)
      [] x.t = "str"  -> DumpStr(x.s)
      [] x.t = "list" -> IF x.xs = <<>> THEN <<"[", "]">>
                         ELSE <<"[">> \o DumpItems(x.xs, level + 1) \o Indent(level) \o <<"]">>
      [] x.t = "dict" -> IF x.xs = <<>> THEN <<"{", "}">>
                         ELSE <<"{">> \o DumpPairs(x.xs, level + 1) \o Indent(level) \o <<"}">>

DumpItems(xs, level) ==
    Indent(level) \o Dump(Head(xs), level)
        \o (IF Len(xs) = 1 THEN <<>> ELSE <<",">> \o DumpItems(Tail(xs), level))

DumpPairs(ps, level) ==
    Indent(level) \o DumpStr(Head(ps).s) \o <<":", " ">> \o Dump(Head(ps).xs[1], level)
        \o (IF Len(ps) = 1 THEN <<>> ELSE <<",">> \o DumpPairs(Tail(ps), level))

RECURSIVE SkipWs(_)
\* the text after its leading white space
SkipWs(txt) ==
    IF txt # <<>> /\ Head(txt) \in {" ", "\n"} THEN SkipWs(Tail(txt)) ELSE txt

RECURSIVE ParseDigits(_, _)
\* json.load of the digits of a number: [val, rest]
ParseDigits(txt, acc) ==
    IF txt # <<>> /\ IsDigit(Head(txt))
    THEN ParseDigits(Tail(txt), acc * 10 + DigitVal(Head(txt)))
    ELSE [val |-> acc, rest |-> txt]

\* json.load of a number: [val, rest]
ParseInt(txt) ==
    IF Head(txt) = "-"
    THEN LET r == ParseDigits(Tail(txt), 0) IN [val |-> JInt(0 - r.val), rest |-> r.rest]
    ELSE LET r == ParseDigits(txt, 0) IN [val |-> JInt(r.val), rest |-> r.rest]

\* the character an escape sequence \c stands for
UnescapeChar(c) == IF c = "n" THEN "\n" ELSE c

RECURSIVE ParseChars(_, _)
\* json.load of a str after its opening quote: [val, rest]
ParseChars(txt, acc) ==
    IF Head(txt) = "\""
    THEN [val |-> acc, rest |-> Tail(txt)]
    ELSE IF Head(txt) = "\\"
         THEN ParseChars(Tail(Tail(txt)), Append(acc, UnescapeChar(txt[2])))
         ELSE ParseChars(Tail(txt), Append(acc, Head(txt)))

RECURSIVE ParseValue(_), ParseItems(_, _), ParsePairs(_, _)
\* json.load of one value at the head of a text: [val, rest]
ParseValue(txt0) ==
    LET txt == SkipWs(txt0)
    IN  CASE Head(txt) = "[" ->
                 IF Head(SkipWs(Tail(txt))) = "]"
                 THEN [val |-> JList(<<>>), rest |-> Tail(SkipWs(Tail(txt)))]
                 ELSE ParseItems(Tail(txt), <<>>)
          [] Head(txt) = "{" ->
                 IF Head(SkipWs(Tail(txt))) = "}"
                 THEN [val |-> JDict(<<>>), rest |-> Tail(SkipWs(Tail(txt)))]
                 ELSE ParsePairs(Tail(txt), <<>>)
          [] Head(txt) = "\"" ->
                 LET r == ParseChars(Tail(txt), <<>>)
                 IN  [val |-> JStr(r.val), rest |-> r.rest]
          [] Head(txt) = "n" ->
                 [val |-> JNull, rest |-> SubSeq(txt, 5, Len(txt))]
          [] OTHER -> ParseInt(txt)

ParseItems(txt, acc) ==
    LET r    == ParseValue(txt)
        next == SkipWs(r.rest)
    IN  IF Head(next) = ","
        THEN ParseItems(Tail(next), Append(acc, r.val))
        ELSE [val |-> JList(Append(acc, r.val)), rest |-> Tail(next)]

ParsePairs(txt, acc) ==
    LET k    == ParseChars(Tail(SkipWs(txt)), <<>>)
        r    == ParseValue(Tail(SkipWs(k.rest)))
        next == SkipWs(r.rest)
    IN  IF Head(next) = ","
        THEN ParsePairs(Tail(next), Append(acc, JPair(k.val, r.val)))
        ELSE [val |-> JDict(Append(acc, JPair(k.val, r.val))), rest |-> Tail(next)]

\* json.load(file)
Load(txt) == ParseValue(txt).val

\* the text of the file at a path: the last text written to it
RECURSIVE FileText(_, _)
FileText(files, path) ==
    IF files[Len(files)].path = path THEN files[Len(files)].text
    ELSE FileText(SubSeq(files, 1, Len(files) - 1), path)

\* the effect of save_json(path, container): a line is printed and the file is (over)written
SaveJsonTo(path, value) ==
    /\ stdout' = Append(stdout, "Saving json to")
    /\ fs' = Append(fs, [path |-> path, text |-> Dump(value, 0)])

\* the records written in the round-trip runs: dicts with str, int and nested list values
JsonStrings == {<<>>, <<"a">>, <<"a", "\"", "b">>, <<"\\", "\n">>}
JsonInts == {0, 7, 12, 0 - 3, 105}
JsonKey == <<"k", "e", "y">>
JsonNumber == <<"n", "u", "m", "b", "e", "r">>
JsonRecords ==
    {JDict(<<>>),
     JDict(<<JPair(JsonKey, JNull)>>),
     JDict(<<JPair(JsonKey, JList(<<>>))>>),
     JDict(<<JPair(JsonKey, JList(<<JDict(<<JPair(JsonNumber, JInt(12))>>), JStr(<<"a">>)>>))>>)}
    \cup {JDict(<<JPair(JsonKey, JStr(cs))>>) : cs \in JsonStrings}
    \cup {JDict(<<JPair(JsonNumber, JInt(n))>>) : n \in JsonInts}
    \cup {JDict(<<JPair(JsonKey, JStr(cs)), JPair(JsonNumber, JInt(n))>>) : cs \in JsonStrings, n \in JsonInts}
JsonLists ==
    UNION {[1..n -> JsonRecords] : n \in 0..MaxItems}

\* a list of records about to be saved and read back
InitJson ==
    /\ op = "json"
    /\ now = 0
    /\ start_date_str = DefaultStartDate
    /\ total_days = 0
    /\ max_size = 0
    /\ InitCommon
    /\ cli = "none"
    /\ query_option = "none"
    /\ collect_comments = FALSE
    /\ \E rs \in JsonLists : container = JList(rs)

\* save_json(path, container)
SaveJson ==
    /\ op = "json"
    /\ pc = "start"
    /\ SaveJsonTo("test.json", container)
    /\ pc' = "saved"
    /\ UNCHANGED <<inputs, locals, ret, response, attempt, nattempt, result, error, history,
                   cli, query_option, container, loaded, idx, collect_comments, comment_calls, status, cquery>>

\* read_json(path)
ReadJson ==
    /\ op = "json"
    /\ pc = "saved"
    /\ loaded' = Load(FileText(fs, "test.json"))
    /\ pc' = "done"
    /\ UNCHANGED <<inputs, locals, ret, response, attempt, nattempt, result, error, history,
                   cli, query_option, container, fs, stdout, idx, collect_comments, comment_calls, status, cquery>>

NextJson == SaveJson \/ ReadJson

SpecJson == InitJson /\ [][NextJson]_vars

(***************************************************************************)
(* tiktok_dynamics: the values and inputs of its client.                   *)
(***************************************************************************)
\* tiktok_dynamics.utils.generate_date_ranges: the same loop, without the clamp to now
DynGenerateDateRanges(start_str, days) ==
    LET start_date == Strptime(start_str)
    IN  DateRangeLoop(start_date, AddDays(start_date, days), <<>>)

\* the comment counts the server reports for a video
CommentCounts == {0, 3}

\* a video of the video/query endpoint; has_comments: the key "comments" is set
Video(id, cc) == [id |-> id, comment_count |-> cc, has_comments |-> FALSE, comments |-> <<>>]

\* the pages of n videos the server can answer
VideoPages(n, first_id) ==
    {[i \in 1..n |-> Video(first_id + i, cc[i])] : cc \in [1..n -> CommentCounts]}

\* the pages of n videos of a user (comment counts play no role in _get_user_videos)
UserVideoPage(n, first_id) == [i \in 1..n |-> Video(first_id + i, 0)]

\* response.json()["data"] of a page
DynResponse(items, more, r) ==
    [items |-> items, has_more |-> more, cursor |-> r, search_id |-> r]

\* "max_count": collect_max if collect_max <= 100 else 100
KeywordMaxCount(collect_max) == IF collect_max <= MaxCount THEN collect_max ELSE MaxCount

\* the query of search_keyword for its first window
KeywordQuery(date_range, collect_max) ==
    ("query" :> "keyword IN keywords and region_code IN region_code")
        @@ ("start_date" :> date_range[1]) @@ ("end_date" :> date_range[2])
        @@ ("max_count" :> KeywordMaxCount(collect_max))

\* the query of _get_comments (max_count=10, scaled to the page bound)
DynCommentMaxCount == MaxCount
DynCommentsQuery(video_id) == ("video_id" :> video_id) @@ ("max_count" :> DynCommentMaxCount)

\* _get_user_videos: start_date="2021-01-01", generate_date_ranges(start_date, 1000)
DynUserStartDate == <<2021, 1, 1>>
DynUserTotalDays == 1000

HasCommentsAlways(video) == video.comment_count >= 0

\* if video["comment_count"] > 0
HasComments(video) == video.comment_count > 0

\* the while condition of search_keyword
KeywordLoopCond == (has_more_data \/ Len(date_ranges) > 0) /\ max_size > Len(data)

\* a request as seen by the server
DynSend(payload) ==
    /\ nreq' = nreq + 1
    /\ sent' = [payload |-> payload, win |-> widx, first |-> (wreq = 0), n |-> nreq + 1]

\* the outcomes of a failing post followed by raise_for_status: no answer, or a 5xx answer
FailStatus == {0, 500}
ErrorOf(st) == IF st = 0 THEN "ConnectionError" ELSE "HTTPError"

\* print("No data collected. Please try again.")
NoDataMessage == "No data collected. Please try again."

\* the JSON values of the collected data
KeyId == <<"i", "d">>
KeyCreateTime == <<"c", "r", "e", "a", "t", "e", "_", "t", "i", "m", "e">>
KeyCommentCount == <<"c", "o", "m", "m", "e", "n", "t", "_", "c", "o", "u", "n", "t">>
KeyComments == <<"c", "o", "m", "m", "e", "n", "t", "s">>
KeyDisplayName == <<"d", "i", "s", "p", "l", "a", "y", "_", "n", "a", "m", "e">>
KeyVideos == <<"v", "i", "d", "e", "o", "s">>
ItemJson(item) ==
    JDict(<<JPair(KeyId, JInt(item.id)), JPair(KeyCreateTime, JInt(item.create_time))>>)
ItemsJson(items) == JList([i \in 1..Len(items) |-> ItemJson(items[i])])
VideoJson(video) ==
    JDict(<<JPair(KeyId, JInt(video.id)), JPair(KeyCommentCount, JInt(video.comment_count))>>
          \o (IF video.has_comments
              THEN <<JPair(KeyComments, ItemsJson(video.comments))>> ELSE <<>>))
VideosJson(items) == JList([i \in 1..Len(items) |-> VideoJson(items[i])])
UserJson(user) ==
    JDict(<<JPair(KeyDisplayName, JStr(<<"n", "a", "m", "e">>)),
            JPair(KeyVideos, ItemsJson(user["videos"]))>>)
DynUserJson(user) ==
    JDict(<<JPair(KeyDisplayName, JStr(<<"n", "a", "m", "e">>)),
            JPair(KeyVideos, VideosJson(user["videos"]))>>)

\* the options of the tiktok_dynamics command line
DynQueryOptions == {"user", "keyword", "comments"}
DynOpOf(option) ==
    CASE option = "user"     -> "get_user_info"
      [] option = "keyword"  -> "search_keyword"
      [] option = "comments" -> "pass"
DynStartDate == <<2022, 1, 1>>
DynTotalDays == {0, 20, 45}
DynCollectMax == {1, 2}

\* python -m tiktok_dynamics -q <query_option> -m <collect_max> -td <total_days> -cc <collect_comments>
InitDyn ==
    /\ cli = "dynamics"
    /\ query_option \in DynQueryOptions
    /\ op = DynOpOf(query_option)
    /\ now = 0
    /\ start_date_str = DynStartDate
    /\ total_days \in (IF query_option = "keyword" THEN DynTotalDays ELSE {20})
    /\ max_size \in (IF query_option = "keyword" THEN DynCollectMax ELSE {1})
    /\ collect_comments \in (IF query_option = "keyword" THEN BOOLEAN ELSE {TRUE})
    /\ container = None
    /\ InitCommon

\* what no step of tiktok_dynamics changes
dyn_fixed == <<inputs, ret, attempt, nattempt, headers, call, nfail, none_seen, before_none,
               cli, query_option,
               container, loaded, collect_comments>>

(***************************************************************************)
(* tiktok_dynamics TiktokClient.search_keyword (called with paginate=True) *)
(***************************************************************************)
\* headers = self._get_headers() (get_access_token raises on a failed exchange), the
\* windows, and the query of the first window: date_ranges[0] of no windows raises IndexError
DynSearchKeywordStart ==
    /\ op = "search_keyword"
    /\ pc = "start"
    /\ \/ /\ ntoken' = ntoken + 1
          /\ status' = 401
          /\ pc' = "raised"
          /\ error' = "HTTPError"
          /\ UNCHANGED <<date_ranges, widx, query, wreq>>
       \/ /\ DynGenerateDateRanges(start_date_str, total_days) = <<>>
          /\ ntoken' = ntoken + 1
          /\ status' = 200
          /\ pc' = "raised"
          /\ error' = "IndexError"
          /\ UNCHANGED <<date_ranges, widx, query, wreq>>
       \/ /\ DynGenerateDateRanges(start_date_str, total_days) # <<>>
          /\ ntoken' = ntoken + 1
          /\ status' = 200
          /\ date_ranges' = DynGenerateDateRanges(start_date_str, total_days)
          /\ widx' = 1
          /\ wreq' = 0
          /\ query' = KeywordQuery(date_ranges'[1], max_size)
          /\ pc' = "kw_post"
          /\ UNCHANGED <<error>>
    /\ UNCHANGED <<dyn_fixed, data, has_more_data, videos, comments, user_data, response,
                   result, nreq, nmore, served, sent, fetched, fs, stdout, idx,
                   comment_calls, cquery>>

\* the first requests.post, raise_for_status, date_ranges.pop(0), data = list(), has_more
DynSearchKeywordPost ==
    /\ pc = "kw_post"
    /\ \/ /\ \E st \in FailStatus : status' = st /\ error' = ErrorOf(st)
          /\ DynSend(query)
          /\ wreq' = wreq + 1
          /\ pc' = "raised"
          /\ UNCHANGED <<date_ranges, data, has_more_data, response, nmore, served, fetched>>
       \/ /\ \E n \in 0..query["max_count"], more \in BOOLEAN : \E items \in VideoPages(n, served) :
             /\ more => nmore < MaxMore
             /\ response' = DynResponse(items, more, nreq + 1)
             /\ nmore' = IF more THEN nmore + 1 ELSE nmore
             /\ served' = served + n
             /\ fetched' = fetched \o items
             /\ has_more_data' = more
          /\ status' = 200
          /\ DynSend(query)
          /\ wreq' = wreq + 1
          /\ date_ranges' = Tail(date_ranges)
          /\ data' = <<>>
          /\ pc' = "kw_loop"
          /\ UNCHANGED <<error>>
    /\ UNCHANGED <<dyn_fixed, widx, query, videos, comments, user_data, result, ntoken, fs,
                   stdout, idx, comment_calls, cquery>>

\* query["cursor"], query["search_id"] of the previous response
WithCursor(q, resp) == SetKey(SetKey(q, "cursor", resp.cursor), "search_id", resp.search_id)

\* query["start_date"], query["end_date"] of a window
WithWindow(q, date_range) ==
    SetKey(SetKey(q, "start_date", date_range[1]), "end_date", date_range[2])

\* one pass of the while loop: the cursor of the previous response, data.extend of the
\* previous response, the next post with raise_for_status, and the move to the next window
DynSearchKeywordLoop ==
    /\ pc = "kw_loop"
    /\ KeywordLoopCond
    /\ data' = Extend(data, response.items)
    /\ DynSend(WithCursor(query, response))
    /\ \/ /\ \E st \in FailStatus : status' = st /\ error' = ErrorOf(st)
          /\ query' = WithCursor(query, response)
          /\ wreq' = wreq + 1
          /\ pc' = "raised"
          /\ UNCHANGED <<date_ranges, widx, has_more_data, response, nmore, served, fetched>>
       \/ /\ \E n \in 0..query["max_count"], more \in BOOLEAN : \E items \in VideoPages(n, served) :
             /\ more => nmore < MaxMore
             /\ response' = DynResponse(items, more, nreq + 1)
             /\ nmore' = IF more THEN nmore + 1 ELSE nmore
             /\ served' = served + n
             /\ fetched' = fetched \o items
             /\ IF ~more /\ Len(date_ranges) > 0
                THEN /\ query' = WithWindow(WithCursor(query, response), date_ranges[1])
                     /\ date_ranges' = Tail(date_ranges)
                     /\ has_more_data' = TRUE
                     /\ widx' = widx + 1
                     /\ wreq' = 0
                ELSE /\ query' = WithCursor(query, response)
                     /\ has_more_data' = more
                     /\ wreq' = wreq + 1
                     /\ UNCHANGED <<date_ranges, widx>>
          /\ status' = 200
          /\ UNCHANGED <<pc, error>>
    /\ UNCHANGED <<dyn_fixed, videos, comments, user_data, result, ntoken, fs, stdout, idx,
                   comment_calls, cquery>>

\* the while condition is false: the comment fan-out if collect_comments, else return data
DynSearchKeywordLoopExit ==
    /\ pc = "kw_loop"
    /\ ~KeywordLoopCond
    /\ idx' = 1
    /\ pc' = IF collect_comments THEN "fanout" ELSE "returned"
    /\ UNCHANGED <<dyn_fixed, date_ranges, widx, query, data, has_more_data, videos,
                   comments, user_data, response, result, error, nreq, wreq, ntoken, nmore,
                   served, sent, fetched, fs, stdout, comment_calls, status, cquery>>

\* for idx, video in enumerate(data): if video["comment_count"] > 0: self._get_comments(video["id"])
DynFanOut ==
    /\ pc = "fanout"
    /\ \/ /\ idx > Len(data)
          /\ pc' = "returned"
          /\ UNCHANGED <<idx, comment_calls>>
       \/ /\ idx <= Len(data)
          /\ HasComments(data[idx])
          /\ comment_calls' = Append(comment_calls, data[idx].id)
          /\ pc' = "gc_start"
          /\ UNCHANGED <<idx>>
       \/ /\ idx <= Len(data)
          /\ ~HasComments(data[idx])
          /\ idx' = idx + 1
          /\ UNCHANGED <<pc, comment_calls>>
    /\ UNCHANGED <<dyn_fixed, date_ranges, widx, query, data, has_more_data, videos,
                   comments, user_data, response, result, error, nreq, wreq, ntoken, nmore,
                   served, sent, fetched, fs, stdout, status, cquery>>

(***************************************************************************)
(* tiktok_dynamics TiktokClient._get_comments(video_id)                    *)
(***************************************************************************)
\* headers = self._get_headers() and the query
DynGetCommentsStart ==
    /\ pc = "gc_start"
    /\ \/ /\ ntoken' = ntoken + 1
          /\ status' = 401
          /\ pc' = "raised"
          /\ error' = "HTTPError"
          /\ UNCHANGED <<comments, cquery>>
       \/ /\ ntoken' = ntoken + 1
          /\ status' = 200
          /\ cquery' = DynCommentsQuery(data[idx].id)
          /\ comments' = <<>>
          /\ pc' = "gc_post"
          /\ UNCHANGED <<error>>
    /\ UNCHANGED <<dyn_fixed, date_ranges, widx, query, data, has_more_data, videos,
                   user_data, response, result, nreq, wreq, nmore, served, sent, fetched,
                   fs, stdout, idx, comment_calls>>

\* the first requests.post (no raise_for_status): it raises, or answers 500 (return []),
\* or answers a page; the loop is entered if has_more and len(comments) < max_count
DynGetCommentsPost ==
    /\ pc = "gc_post"
    /\ DynSend(cquery)
    /\ wreq' = wreq + 1
    /\ \/ /\ status' = 0
          /\ error' = "ConnectionError"
          /\ pc' = "raised"
          /\ UNCHANGED <<comments, response, nmore, served>>
       \/ /\ status' = 500
          /\ comments' = <<>>
          /\ pc' = "gc_return"
          /\ UNCHANGED <<response, error, nmore, served>>
       \/ /\ \E n \in 0..cquery["max_count"], more \in BOOLEAN :
             /\ more => nmore < MaxMore
             /\ response' = PageResponse(n, more, nreq + 1, served)
             /\ nmore' = IF more THEN nmore + 1 ELSE nmore
             /\ served' = served + n
             /\ comments' = response'.items
             /\ pc' = IF more /\ n < cquery["max_count"] THEN "gc_loop" ELSE "gc_return"
          /\ status' = 200
          /\ UNCHANGED <<error>>
    /\ UNCHANGED <<dyn_fixed, date_ranges, widx, query, data, has_more_data, videos,
                   user_data, result, ntoken, fetched, fs, stdout, idx, comment_calls,
                   cquery>>

\* while response.json()["data"]["has_more"]: the next page; a 500 answer returns the
\* comments gathered so far
DynGetCommentsLoop ==
    /\ pc = "gc_loop"
    /\ response.has_more
    /\ cquery' = SetKey(cquery, "cursor", response.cursor)
    /\ DynSend(cquery')
    /\ wreq' = wreq + 1
    /\ \/ /\ status' = 0
          /\ error' = "ConnectionError"
          /\ pc' = "raised"
          /\ UNCHANGED <<comments, response, nmore, served>>
       \/ /\ status' = 500
          /\ pc' = "gc_return"
          /\ UNCHANGED <<comments, response, error, nmore, served>>
       \/ /\ \E n \in 0..cquery["max_count"], more \in BOOLEAN :
             /\ more => nmore < MaxMore
             /\ response' = PageResponse(n, more, nreq + 1, served)
             /\ nmore' = IF more THEN nmore + 1 ELSE nmore
             /\ served' = served + n
             /\ comments' = Extend(comments, response'.items)
             /\ pc' = IF more THEN "gc_loop" ELSE "gc_return"
          /\ status' = 200
          /\ UNCHANGED <<error>>
    /\ UNCHANGED <<dyn_fixed, date_ranges, widx, query, data, has_more_data, videos,
                   user_data, result, ntoken, fetched, fs, stdout, idx, comment_calls>>

\* data[idx]["comments"] = comments, and the next video
DynGetCommentsReturn ==
    /\ pc = "gc_return"
    /\ data' = [data EXCEPT ![idx] = [@ EXCEPT !.has_comments = TRUE, !.comments = comments]]
    /\ idx' = idx + 1
    /\ pc' = "fanout"
    /\ UNCHANGED <<dyn_fixed, date_ranges, widx, query, has_more_data, videos, comments,
                   user_data, response, result, error, nreq, wreq, ntoken, nmore, served,
                   sent, fetched, fs, stdout, comment_calls, status, cquery>>

(***************************************************************************)
(* tiktok_dynamics TiktokClient.get_user_info and _get_user_videos         *)
(***************************************************************************)
\* headers = self._get_headers() and the payload
DynGetUserInfoStart ==
    /\ op = "get_user_info"
    /\ pc = "start"
    /\ \/ /\ ntoken' = ntoken + 1
          /\ status' = 401
          /\ pc' = "raised"
          /\ error' = "HTTPError"
          /\ UNCHANGED <<query>>
       \/ /\ ntoken' = ntoken + 1
          /\ status' = 200
          /\ query' = UserInfoQuery
          /\ pc' = "ui_post"
          /\ UNCHANGED <<error>>
    /\ UNCHANGED <<dyn_fixed, date_ranges, widx, data, has_more_data, videos, comments,
                   user_data, response, result, nreq, wreq, nmore, served, sent, fetched,
                   fs, stdout, idx, comment_calls, cquery>>

\* requests.post, raise_for_status, data = response.json()["data"]
DynGetUserInfoPost ==
    /\ pc = "ui_post"
    /\ DynSend(query)
    /\ wreq' = wreq + 1
    /\ \/ /\ \E st \in FailStatus : status' = st /\ error' = ErrorOf(st)
          /\ pc' = "raised"
          /\ UNCHANGED <<user_data>>
       \/ /\ status' = 200
          /\ user_data' = UserBody
          /\ pc' = "uv_start"
          /\ UNCHANGED <<error>>
    /\ UNCHANGED <<dyn_fixed, date_ranges, widx, query, data, has_more_data, videos,
                   comments, response, result, ntoken, nmore, served, fetched, fs, stdout,
                   idx, comment_calls, cquery>>

\* _get_user_videos: headers, the windows, the query template
DynUserVideosStart ==
    /\ pc = "uv_start"
    /\ \/ /\ ntoken' = ntoken + 1
          /\ status' = 401
          /\ pc' = "raised"
          /\ error' = "HTTPError"
          /\ UNCHANGED <<date_ranges, widx, query, has_more_data, videos, wreq>>
       \/ /\ ntoken' = ntoken + 1
          /\ status' = 200
          /\ date_ranges' = DynGenerateDateRanges(DynUserStartDate, DynUserTotalDays)
          /\ query' = UserVideosQuery
          /\ videos' = <<>>
          /\ widx' = 1
          /\ wreq' = 0
          /\ has_more_data' = TRUE
          /\ pc' = "uv_loop"
          /\ UNCHANGED <<error>>
    /\ UNCHANGED <<dyn_fixed, data, comments, user_data, response, result, nreq, nmore,
                   served, sent, fetched, fs, stdout, idx, comment_calls, cquery>>

\* one pass of while has_more: the post (no raise_for_status) raises, answers 500 (return
\* videos, which get_user_info stores in data["videos"]), or answers a page
DynUserVideosRequest ==
    /\ pc = "uv_loop"
    /\ widx <= Len(date_ranges)
    /\ has_more_data
    /\ DynSend(WithWindow(query, date_ranges[widx]))
    /\ wreq' = wreq + 1
    /\ \/ /\ status' = 0
          /\ error' = "ConnectionError"
          /\ query' = WithWindow(query, date_ranges[widx])
          /\ pc' = "raised"
          /\ UNCHANGED <<has_more_data, videos, user_data, response, result, nmore, served,
                                     fetched>>
       \/ /\ status' = 500
          /\ query' = WithWindow(query, date_ranges[widx])
          /\ user_data' = SetKey(user_data, "videos", videos)
          /\ result' = user_data'
          /\ pc' = "returned"
          /\ UNCHANGED <<has_more_data, videos, response, error, nmore, served, fetched>>
       \/ /\ \E n \in 0..query["max_count"], more \in BOOLEAN :
             /\ served + n <= MaxUserVideos
             /\ more => nmore < MaxMore
             /\ response' = DynResponse(UserVideoPage(n, served), more, nreq + 1)
             /\ nmore' = IF more THEN nmore + 1 ELSE nmore
             /\ served' = served + n
             /\ videos' = Extend(videos, response'.items)
             /\ fetched' = fetched \o response'.items
             /\ has_more_data' = more
             /\ query' = IF more THEN WithCursor(WithWindow(query, date_ranges[widx]), response')
                         ELSE WithWindow(query, date_ranges[widx])
          /\ status' = 200
          /\ UNCHANGED <<pc, user_data, result, error>>
    /\ UNCHANGED <<dyn_fixed, date_ranges, widx, data, comments, ntoken, fs, stdout, idx,
                   comment_calls, cquery>>

\* the window is exhausted: query.pop("cursor", None), query.pop("search_id", None), next window
DynUserVideosNextWindow ==
    /\ pc = "uv_loop"
    /\ widx <= Len(date_ranges)
    /\ ~has_more_data
    /\ query' = DelKey(DelKey(query, "cursor"), "search_id")
    /\ widx' = widx + 1
    /\ wreq' = 0
    /\ has_more_data' = TRUE
    /\ UNCHANGED <<dyn_fixed, pc, date_ranges, data, videos, comments, user_data, response,
                   result, error, nreq, ntoken, nmore, served, sent, fetched, fs, stdout,
                   idx, comment_calls, status, cquery>>

\* return videos; data["videos"] = <the videos>; return data
DynUserVideosReturn ==
    /\ pc = "uv_loop"
    /\ widx > Len(date_ranges)
    /\ user_data' = SetKey(user_data, "videos", videos)
    /\ result' = user_data'
    /\ pc' = "returned"
    /\ UNCHANGED <<dyn_fixed, date_ranges, widx, query, data, has_more_data, videos,
                   comments, response, error, nreq, wreq, ntoken, nmore, served, sent,
                   fetched, fs, stdout, idx, comment_calls, status, cquery>>

(***************************************************************************)
(* tiktok_dynamics main                                                    *)
(***************************************************************************)
\* query_option == "user": save_json(DATA_USER_DIR / f"{query_input}.json", user_data)
DynMainUser ==
    /\ cli = "dynamics"
    /\ op = "get_user_info"
    /\ pc = "returned"
    /\ SaveJsonTo("users/input.json", DynUserJson(user_data))
    /\ pc' = "exit"
    /\ UNCHANGED <<dyn_fixed, date_ranges, widx, query, data, has_more_data, videos,
                   comments, user_data, response, result, error, nreq, wreq, ntoken, nmore,
                   served, sent, fetched, idx, comment_calls, status, cquery>>

\* query_option == "keyword": print if len(keyword_data) == 0, else save_json
DynMainKeyword ==
    /\ cli = "dynamics"
    /\ op = "search_keyword"
    /\ pc = "returned"
    /\ result' = data
    /\ IF Len(data) = 0
          THEN /\ stdout' = Append(stdout, NoDataMessage)
               /\ UNCHANGED fs
          ELSE SaveJsonTo("keyword/input.json", VideosJson(data))
    /\ pc' = "exit"
    /\ UNCHANGED <<dyn_fixed, date_ranges, widx, query, data, has_more_data, videos,
                   comments, user_data, response, error, nreq, wreq, ntoken, nmore, served,
                   sent, fetched, idx, comment_calls, status, cquery>>

\* query_option == "comments": pass
DynMainComments ==
    /\ cli = "dynamics"
    /\ op = "pass"
    /\ pc = "start"
    /\ pc' = "exit"
    /\ UNCHANGED <<dyn_fixed, date_ranges, widx, query, data, has_more_data, videos,
                   comments, user_data, response, result, error, nreq, wreq, ntoken, nmore,
                   served, sent, fetched, fs, stdout, idx, comment_calls, status, cquery>>

NextDyn ==
    \/ DynSearchKeywordStart
    \/ DynSearchKeywordPost
    \/ DynSearchKeywordLoop
    \/ DynSearchKeywordLoopExit
    \/ DynFanOut
    \/ DynGetCommentsStart
    \/ DynGetCommentsPost
    \/ DynGetCommentsLoop
    \/ DynGetCommentsReturn
    \/ DynGetUserInfoStart
    \/ DynGetUserInfoPost
    \/ DynUserVideosStart
    \/ DynUserVideosRequest
    \/ DynUserVideosNextWindow
    \/ DynUserVideosReturn
    \/ DynMainUser
    \/ DynMainKeyword
    \/ DynMainComments

SpecDyn == InitDyn /\ [][NextDyn]_vars

(***************************************************************************)
(* tiktok_research_client main                                             *)
(***************************************************************************)
\* type=click.Choice(["user", "search", "comments"])
MainChoices == {"user", "search", "comments"}

\* the values of --query_option: the three choices, and the default "keyword"
MainQueryOptions == {"user", "search", "comments", "keyword"}
MainOpOfLenient(option) ==
    CASE option = "user"     -> "get_user"
      [] option = "comments" -> "get_comments"
      [] OTHER               -> "search"

\* the branch of the if chain of main an option selects
MainOpOf(option) ==
    CASE option = "user"     -> "get_user"
      [] option = "search"   -> "search"
      [] option = "comments" -> "get_comments"
      [] OTHER               -> "invalid"

\* --start_date (its default) and the values of --collect_max
MainStartDate == <<2023, 1, 1>>
MainCollectMax == {1, 2}
\* datetime.now() of the runs of main: midnight and noon of 2023-02-10
MainNows == {Strptime(<<2023, 2, 10>>), Strptime(<<2023, 2, 10>>) + 1}

\* python -m tiktok_research_client -q <query_option> -m <collect_max> -d <start_date>
InitMain ==
    /\ cli = "research"
    /\ query_option \in MainQueryOptions
    /\ op = MainOpOf(query_option)
    /\ now \in MainNows
    /\ start_date_str = MainStartDate
    /\ max_size \in (IF op = "search" THEN MainCollectMax ELSE {UserMaxSize})
    /\ total_days = TotalDaysOf(op)
    /\ collect_comments = FALSE
    /\ container = None
    /\ InitCommon

\* what the end of main leaves alone
main_fixed == <<inputs, locals, ret, response, attempt, nattempt, result, history, cli, query_option,
                container, loaded, idx, collect_comments, comment_calls, status, cquery>>

\* query_option == "user": save_json(Path(".data/users") / f"{query_input}.json", user_data)
MainUser ==
    /\ cli = "research"
    /\ op = "get_user"
    /\ pc = "done"
    /\ SaveJsonTo(".data/users/input.json", UserJson(result))
    /\ pc' = "exit"
    /\ UNCHANGED <<main_fixed, error>>

\* query_option == "search": print if len(search_data) == 0, else save_json
MainSearch ==
    /\ cli = "research"
    /\ op = "search"
    /\ pc = "done"
    /\ IF Len(result) = 0
       THEN /\ stdout' = Append(stdout, NoDataMessage)
            /\ UNCHANGED fs
       ELSE SaveJsonTo(".data/search/input.json", ItemsJson(result))
    /\ pc' = "exit"
    /\ UNCHANGED <<main_fixed, error>>

\* query_option == "comments": print if len(comments_data) == 0, else save_json
MainComments ==
    /\ cli = "research"
    /\ op = "get_comments"
    /\ pc = "done"
    /\ IF Len(result) = 0
       THEN /\ stdout' = Append(stdout, NoDataMessage)
            /\ UNCHANGED fs
       ELSE SaveJsonTo(".data/comments/input.json", ItemsJson(result))
    /\ pc' = "exit"
    /\ UNCHANGED <<main_fixed, error>>

\* else: raise ValueError("Invalid query option")
MainInvalidOption ==
    /\ cli = "research"
    /\ op = "invalid"
    /\ pc = "start"
    /\ error' = "ValueError"
    /\ pc' = "raised"
    /\ UNCHANGED <<main_fixed, fs, stdout>>

NextMain ==
    \/ GetHeaders
    \/ GetHeadersFail
    \/ PostOk
    \/ PostFail
    \/ CursorIteratorLoop
    \/ CursorIteratorBody
    \/ SearchStart
    \/ SearchFor
    \/ SearchOutput
    \/ SearchExtend
    \/ UserVideosFor
    \/ UserVideosExtend
    \/ GetUserStart
    \/ GetUserAfterFetch
    \/ GetUserAssign
    \/ GetCommentsStart
    \/ GetCommentsLoop
    \/ GetCommentsBody
    \/ MainUser
    \/ MainSearch
    \/ MainComments
    \/ MainInvalidOption

SpecMain == InitMain /\ [][NextMain]_vars

(***************************************************************************)
(* Properties of the collection runs (checked under Spec).                 *)
(***************************************************************************)
\* C1: the list search returns holds at most max_size + max_count - 1 items
\* (max_count being the largest page the server sends).
C1_SearchCap ==
    (op = "search" /\ pc = "done") => Len(videos) <= max_size + MaxCount - 1

\* C2: if fetch_data returned None during search, search returns exactly the
\* items of the pages fetched successfully before that failure, in fetch order.
C2_PartialResultOnFailure ==
    (op = "search" /\ pc = "done" /\ none_seen) => Ids(videos) = Ids(before_none)

\* C3: once fetch_data has returned None during search or _get_user_videos,
\* no further data request is issued.
C3_StopAfterNone ==
    [][(op \in {"search", "user_videos"} /\ none_seen) => nreq' = nreq]_vars

\* C4: fetch_data yields None only after the data request has failed on three
\* attempts of that call.
C4_RetriesDataRequest ==
    (op = "query" /\ pc = "query_ret" /\ response = None) => nreq = StopAfterAttempt

\* C5: fetch_data never raises because of a failing network call; it returns None.
C5_FetchNeverRaises ==
    op = "query" => pc # "raised"

\* C6: when fetch_data returns None, get_comments and get_user do not raise.
C6_NoneIsNotFatal ==
    (op \in {"get_comments", "get_user"} /\ none_seen) => error # "TypeError"

\* C15: a server error on a comment request ends the comment collection with the
\* comments gathered so far: the call returns them and raises nothing.
C15_ServerErrorEndsComments ==
    (op = "get_comments" /\ none_seen /\ pc \in {"done", "raised"}) =>
        (pc = "done" /\ Ids(result) = Ids(before_none))

\* C7: the first request search issues for a date window carries neither a
\* cursor nor a search_id.
C7_FreshWindowHasNoCursor ==
    (op = "search" /\ sent # None /\ sent.first) =>
        ("cursor" \notin DOMAIN sent.payload /\ "search_id" \notin DOMAIN sent.payload)

\* C8: within one window of search, every data request after the first carries
\* the cursor and search_id of the response to the request just before it.
C8_CursorFollowsPreviousResponse ==
    [][(op = "search" /\ pc = "post" /\ pc' # "post" /\ wreq >= 1) =>
           /\ response # None
           /\ "cursor" \in DOMAIN query
           /\ "search_id" \in DOMAIN query
           /\ query["cursor"] = response.cursor
           /\ query["search_id"] = response.search_id]_vars

\* C16: get_comments returns at most 1000 comments (the comment cap).
C16_CommentCap ==
    (op = "get_comments" /\ pc = "done") => Len(comments) <= MaxComments

\* C17: search and _get_user_videos eventually return a result set.
C17_EventuallyReturns ==
    (op \in {"search", "user_videos"}) => <>(pc = "done")

\* s is a prefix of t
IsPrefix(s, t) == Len(s) <= Len(t) /\ \A i \in 1..Len(s) : s[i] = t[i]

\* the server numbers its items in the order it sends them
InReceiveOrder(ids) == \A i \in 1..(Len(ids) - 1) : ids[i] < ids[i + 1]

\* C18: in search and _get_user_videos the result list only grows at its end
\* (its previous items are a prefix of its current items) and holds its items
\* in the order their pages were received.
C18_AppendOnlyInOrder ==
    [][(op \in {"search", "user_videos", "get_user"}) =>
           (IsPrefix(Ids(videos), Ids(videos')) /\ InReceiveOrder(Ids(videos')))]_vars

\* a search that returned items of two windows, one of them from a two-page chain
C18_Witness ==
    /\ op = "search" /\ pc = "done"
    /\ widx = 3
    /\ Len(videos) >= 3
    /\ nmore >= 1

(***************************************************************************)
(* Properties of the partitioner (checked under SpecDates).                *)
(***************************************************************************)
\* the earlier of start_date + total_days and now
RequestedEnd ==
    IF AddDays(Strptime(start_date_str), total_days) > now
    THEN now ELSE AddDays(Strptime(start_date_str), total_days)

\* C9: in the sequence returned by generate_date_ranges, the end date of each
\* window is the start date of the next window minus exactly one day.
C9_ConsecutiveWindows ==
    (op = "dates" /\ pc = "done") =>
        \A i \in 1..(Len(date_ranges) - 1) :
            DayOfFormatted(date_ranges[i][2]) = DayOfFormatted(date_ranges[i + 1][1]) - 1

\* a run that returned three windows or more, one of them ending in another month
C9_Witness ==
    /\ op = "dates" /\ pc = "done"
    /\ Len(date_ranges) >= 3
    /\ \E i \in 1..(Len(date_ranges) - 1) :
           (date_ranges[i][2] \div 100) # (date_ranges[i + 1][1] \div 100)

\* C10: every returned window has start <= end, and no window ends after
\* min(start_date + total_days, now).
C10_WindowsWithinRange ==
    (op = "dates" /\ pc = "done") =>
        \A i \in 1..Len(date_ranges) :
            /\ DayOfFormatted(date_ranges[i][1]) <= DayOfFormatted(date_ranges[i][2])
            /\ 2 * DayOfFormatted(date_ranges[i][2]) <= RequestedEnd

\* a run whose requested end lies in the future and was clamped to now, with now inside a day
C10_Witness ==
    /\ op = "dates" /\ pc = "done"
    /\ Len(date_ranges) >= 1
    /\ AddDays(Strptime(start_date_str), total_days) > now
    /\ now % 2 = 1
    /\ date_ranges[Len(date_ranges)][2] = Strftime(now)

\* C11: generate_date_ranges returns the empty sequence whenever start_date >=
\* end_date after clamping: for total_days = 0 and for a start date that is
\* not before now.
C11_EmptyWhenNothingToCover ==
    (op = "dates" /\ pc = "done" /\ Strptime(start_date_str) >= RequestedEnd) =>
        date_ranges = <<>>

\* a call with total_days > 0 whose start date is not before now
C11_Witness ==
    /\ op = "dates" /\ pc = "done"
    /\ total_days > 0
    /\ Strptime(start_date_str) >= now
    /\ date_ranges = <<>>

\* the call generate_date_ranges("2022-01-01", 100) has returned, at a time after 2022-04-11
Scenario2022 ==
    /\ op = "dates" /\ pc = "done"
    /\ start_date_str = <<2022, 1, 1>>
    /\ total_days = 100
    /\ now > Strptime(<<2022, 4, 11>>)

\* C12 as stated: the call returns the windows (20220101, 20220131),
\* (20220201, 20220302), (20220303, 20220401), (20220402, 20220411).
C12_ScenarioAsStated ==
    Scenario2022 =>
        date_ranges = <<<<20220101, 20220131>>, <<20220201, 20220302>>,
                        <<20220303, 20220401>>, <<20220402, 20220411>>>>

\* C12 amended: the call returns the 4 windows (20220101, 20220131),
\* (20220201, 20220303), (20220304, 20220403), (20220404, 20220411): each
\* window starts one day after a 30-day span, i.e. 31 days after the last start.
C12_Scenario ==
    Scenario2022 =>
        date_ranges = <<<<20220101, 20220131>>, <<20220201, 20220303>>,
                        <<20220304, 20220403>>, <<20220404, 20220411>>>>

\* the scenario call has returned four windows
C12_Witness == Scenario2022 /\ Len(date_ranges) = 4

\* end - start of a window, in days
SpanOf(w) == DayOfFormatted(w[2]) - DayOfFormatted(w[1])

\* C13: every returned window spans at most 30 days, and every window except
\* the last spans exactly 30 days.
C13_ThirtyDayWindows ==
    (op = "dates" /\ pc = "done") =>
        \A i \in 1..Len(date_ranges) :
            /\ SpanOf(date_ranges[i]) <= 30
            /\ (i < Len(date_ranges) => SpanOf(date_ranges[i]) = 30)

\* a call that returned several windows, the last one truncated
C13_Witness ==
    /\ op = "dates" /\ pc = "done"
    /\ Len(date_ranges) >= 2
    /\ SpanOf(date_ranges[Len(date_ranges)]) < 30
    /\ SpanOf(date_ranges[1]) = 30

\* C22: every attempt of fetch_data issues exactly one token exchange before its data
\* request, so token exchanges and attempts are equal in number, and a data request
\* carries the token obtained in its own attempt.
C22_FreshTokenPerAttempt ==
    (op \in Ops) =>
        /\ ntoken = (IF pc = "get_headers" THEN nattempt - 1 ELSE nattempt)
        /\ (sent # None) => (sent.token = sent.attempt)

\* a data request was sent in an attempt that followed a failed token exchange
C22_Witness ==
    op \in Ops /\ sent # None /\ sent.attempt >= 3 /\ nfail >= 1 /\ nreq >= 2

C25_RequestsOnlyBelowCap ==
    [][(op \in {"search", "user_videos"} /\ nreq' = nreq + 1) =>
          (Len(videos) + Len(data) < max_size)]_vars

\* C26: search paginates each window once: every data request for a window belongs to
\* the first _cursor_iterator call made for that window, none to a second call.
C26_WindowPaginatedOnce ==
    [][(op = "search" /\ nreq' = nreq + 1) => (call = 1)]_vars

\* C28: for total_days >= 1 and an end date not in the future, the first window starts
\* at start_date, the last window ends at start_date + total_days, and every day from
\* start_date to start_date + total_days lies in some window.
C28_WindowsCoverRange ==
    (/\ op = "dates" /\ pc = "done"
     /\ total_days >= 1
     /\ AddDays(Strptime(start_date_str), total_days) <= now) =>
        /\ date_ranges # <<>>
        /\ date_ranges[1][1] = Strftime(Strptime(start_date_str))
        /\ date_ranges[Len(date_ranges)][2] =
               Strftime(AddDays(Strptime(start_date_str), total_days))
        /\ \A k \in 0..total_days :
               \E i \in 1..Len(date_ranges) :
                   /\ DayOfFormatted(date_ranges[i][1]) <= Strptime(start_date_str) \div 2 + k
                   /\ Strptime(start_date_str) \div 2 + k <= DayOfFormatted(date_ranges[i][2])

\* C29: across all requests of one search or _get_user_videos call the payload's
\* "query" and "max_count" equal their initial values, and the only keys
\* beside them are start_date, end_date, cursor and search_id.
QueryTemplateOf(o) == IF o = "search" THEN SearchQuery ELSE UserVideosQuery

KeepsTemplate(payload, template) ==
    /\ DOMAIN template \subseteq DOMAIN payload
    /\ \A k \in DOMAIN template : payload[k] = template[k]
    /\ DOMAIN payload \subseteq
           DOMAIN template \cup {"start_date", "end_date", "cursor", "search_id"}

C29_TemplateUnchanged ==
    (op \in {"search", "user_videos"} /\ pc # "start") =>
        /\ KeepsTemplate(query, QueryTemplateOf(op))
        /\ (sent # None) => KeepsTemplate(sent.payload, QueryTemplateOf(op))

C29_Witness ==
    /\ op = "user_videos"
    /\ sent # None
    /\ sent.win >= 2
    /\ ~sent.first
    /\ "cursor" \in DOMAIN sent.payload

\* C30: every data request of search carries the (start_date, end_date) pair of one
\* window of the partition, and the window index of successive requests never
\* decreases.
WindowOfRequest(r) ==
    {i \in 1..Len(date_ranges) :
        /\ {"start_date", "end_date"} \subseteq DOMAIN r.payload
        /\ r.payload["start_date"] = date_ranges[i][1]
        /\ r.payload["end_date"] = date_ranges[i][2]}

C30_WindowsInPartitionOrder ==
    [][(op = "search" /\ nreq' = nreq + 1) =>
          /\ WindowOfRequest(sent') = {sent'.win}
          /\ (sent # None) =>
                 \A i \in WindowOfRequest(sent) : i <= sent'.win]_vars

C30_Witness ==
    /\ op = "search"
    /\ sent # None
    /\ sent.win >= 2
    /\ ~sent.first
    /\ WindowOfRequest(sent) = {sent.win}

(***************************************************************************)
(* Properties of the JSON files (checked under SpecJson).                  *)
(***************************************************************************)
\* C19: read_json(p) after save_json(p, rs) returns a list equal to rs.
C19_JsonRoundTrip ==
    (op = "json" /\ pc = "done") => loaded = container

\* a list of two records, with a negative number and a string that needs escaping, was read back
C19_Witness ==
    /\ op = "json" /\ pc = "done"
    /\ Len(container.xs) = 2
    /\ \E i \in 1..2 : \E j \in 1..Len(container.xs[i].xs) :
           container.xs[i].xs[j].xs[1] = JInt(0 - 3)
    /\ \E i \in 1..2 : \E j \in 1..Len(container.xs[i].xs) :
           container.xs[i].xs[j].xs[1] = JStr(<<"a", "\"", "b">>)

(***************************************************************************)
(* Properties of the tiktok_dynamics runs (checked under SpecDyn).         *)
(***************************************************************************)
\* the ids _get_comments was called with
CalledIds == {comment_calls[i] : i \in 1..Len(comment_calls)}

\* C14: with collect_comments, _get_comments is invoked for a collected video if and
\* only if its comment_count > 0, at most once per video; no comment request is made
\* for a video with comment_count = 0.  (The "if" part is stated for a fan-out that
\* ran to its end.)
C14_FanOutIffCommentCount ==
    /\ \A i \in 1..Len(comment_calls) :
           \E j \in 1..Len(data) : data[j].id = comment_calls[i] /\ data[j].comment_count > 0
    /\ \A i, j \in 1..Len(comment_calls) : i # j => comment_calls[i] # comment_calls[j]
    /\ (pc \in {"gc_start", "gc_post", "gc_loop", "gc_return"}) =>
           (data[idx].comment_count > 0 /\ comment_calls[Len(comment_calls)] = data[idx].id)
    /\ (cquery # <<>>) => cquery["video_id"] \in CalledIds
    /\ (op = "search_keyword" /\ pc \in {"returned", "exit"} /\ collect_comments) =>
           \A j \in 1..Len(data) : (data[j].comment_count > 0) <=> (data[j].id \in CalledIds)
    /\ (~collect_comments) => comment_calls = <<>>

\* a fan-out ran to its end over a video without comments and a video with comments
C14_Witness ==
    /\ op = "search_keyword" /\ pc = "returned" /\ collect_comments
    /\ \E j, k \in 1..Len(data) :
           /\ data[j].comment_count = 0 /\ ~data[j].has_comments
           /\ data[k].comment_count > 0 /\ data[k].has_comments /\ Len(data[k].comments) > 0

\* the number of items main collected
ItemsCollected ==
    CASE op = "search_keyword" -> Len(data)
      [] op = "get_user_info"  -> Len(user_data["videos"])
      [] op = "get_user"       -> Len(result["videos"])
      [] op \in {"search", "get_comments"} -> Len(result)
      [] OTHER                 -> 0

\* C20: when main ends, zero collected items means a message was printed and no file
\* was written; otherwise exactly one JSON file was written.
C20_MessageOrOneFile ==
    (cli \in {"dynamics", "research"} /\ pc = "exit") =>
        IF ItemsCollected = 0
        THEN stdout # <<>> /\ fs = <<>>
        ELSE Len(fs) = 1

(***************************************************************************)
(* Properties of the tiktok_research_client command line (under SpecMain). *)
(***************************************************************************)
\* C21: when query_option is none of the supported modes, main ends in an error
\* (ValueError), and no token exchange, no data request and no file write happens.
C21_InvalidOptionIsFatal ==
    (cli = "research" /\ query_option \notin MainChoices) =>
        /\ ntoken = 0 /\ nreq = 0 /\ fs = <<>>
        /\ pc \in {"start", "raised"}
        /\ (pc = "raised") => (error = "ValueError")

\* main has ended on an unsupported query_option
C21_Witness ==
    cli = "research" /\ query_option = "keyword" /\ pc = "raised" /\ error = "ValueError"

\* C24: with zero date windows search_keyword returns an empty result: it raises
\* nothing on the missing first window and issues no data request.
C24_NoWindowsEmptyResult ==
    (op = "search_keyword" /\ DynGenerateDateRanges(start_date_str, total_days) = <<>>) =>
        (error # "IndexError" /\ nreq = 0)

\* C27: every video of every page search_keyword fetched successfully is in the list
\* it returns.
C27_NoFetchedPageLost ==
    (op = "search_keyword" /\ pc = "returned") =>
        \A i \in 1..Len(fetched) : \E j \in 1..Len(data) : data[j].id = fetched[i].id

\* The same order for search_keyword (SpecDyn): every video-query request carries the
\* pair of exactly one window of the partition and the window never moves backwards.
KeywordWindowOfRequest(r) ==
    {i \in 1..Len(DynGenerateDateRanges(start_date_str, total_days)) :
        /\ {"start_date", "end_date"} \subseteq DOMAIN r.payload
        /\ r.payload["start_date"] = DynGenerateDateRanges(start_date_str, total_days)[i][1]
        /\ r.payload["end_date"] = DynGenerateDateRanges(start_date_str, total_days)[i][2]}

KeywordWindowsInPartitionOrder ==
    [][(op = "search_keyword" /\ nreq' = nreq + 1 /\ "query" \in DOMAIN sent'.payload) =>
          /\ Cardinality(KeywordWindowOfRequest(sent')) = 1
          /\ (sent # None /\ "query" \in DOMAIN sent.payload) =>
                 \A i \in KeywordWindowOfRequest(sent) :
                     \A j \in KeywordWindowOfRequest(sent') : i <= j]_vars

=============================================================================
